---- MODULE Spec2Model ----
(***************************************************************************)
(* Course recommendation backend: the data store read by the              *)
(* recommendation engine and the engine's recommend_courses call          *)
(* (backend/app/recommendation_engine).                                   *)
(*                                                                         *)
(* Python floats are modelled as exact rationals [n, d] in lowest terms.  *)
(* An Optional value is a sequence of length 0 (None) or 1 (the value).   *)
(* Python sets of small non-negative ints iterate in ascending order, so  *)
(* a list built from a set is the ascending sequence of its elements.     *)
(***************************************************************************)
EXTENDS Integers, Sequences, FiniteSets

VARIABLES
    students,                      \* table students: set of student ids
    courses,                       \* table courses: rows [id, name] in query order
    skills,                        \* table skills: rows [id, name, type]
    career_goals,                  \* table career_goals: set of goal ids
    career_goal_technical_skills,  \* rows [career_goal_id, skill_id]
    career_goal_human_skills,      \* rows [career_goal_id, skill_id]
    course_skills,                 \* rows [course_id, skill_id, relevance_score]
    clusters,                      \* table clusters: rows [id, name]
    course_clusters,               \* rows [course_id, cluster_id], with their id where rows are inserted
    course_reviews,                \* rows [course_id, final_score] in insertion order
    course_prerequisites,          \* rows [course_id, required_course_id]
    student_courses,               \* rows [student_id, course_id, status] in query order
    student_human_skills,          \* rows [student_id, skill_id]
    request,                       \* arguments of the last recommend_courses call
    response,                      \* what the last recommend_courses call produced
    calls,                         \* number of recommend_courses calls made
    repeated                       \* the last call had the arguments of the call before it

tables == <<students, courses, skills, career_goals, career_goal_technical_skills,
            career_goal_human_skills, course_skills, clusters, course_clusters,
            course_reviews, course_prerequisites, student_courses,
            student_human_skills>>

vars == <<students, courses, skills, career_goals, career_goal_technical_skills,
          career_goal_human_skills, course_skills, clusters, course_clusters,
          course_reviews, course_prerequisites, student_courses,
          student_human_skills, request, response, calls, repeated>>

\* The database session handed to the engine: every table as it stands.
DB ==
    [students |-> students, courses |-> courses, skills |-> skills,
     career_goals |-> career_goals,
     career_goal_technical_skills |-> career_goal_technical_skills,
     career_goal_human_skills |-> career_goal_human_skills,
     course_skills |-> course_skills, clusters |-> clusters,
     course_clusters |-> course_clusters, course_reviews |-> course_reviews,
     course_prerequisites |-> course_prerequisites,
     student_courses |-> student_courses,
     student_human_skills |-> student_human_skills]

-----------------------------------------------------------------------------
(* Bounds *)

MaxK == 2          \* largest k requested
MaxRepeats == 2    \* calls per behaviour when calls are repeated
MaxSimItem == 2    \* largest cluster id and skill id in a similarity map
MaxCompleted == 5  \* most courses a student has completed
MaxReviewRows == 3 \* most rows in the course_reviews table
MaxReviewCount == 4 \* largest review count a course is smoothed with
MaxCreated == 2    \* create_course_review calls per behaviour
MaxSeedRuns == 3   \* runs of seed_clusters per behaviour

-----------------------------------------------------------------------------
(* Optional values and exact arithmetic *)

None == <<>>
Some(v) == <<v>>

RECURSIVE GCD(_, _)
GCD(a, b) == IF b = 0 THEN a ELSE GCD(b, a % b)

\* the rational n/d (n >= 0, d > 0) in lowest terms
Rat(n, d) == LET g == GCD(n, d) IN [n |-> n \div g, d |-> d \div g]

Zero == Rat(0, 1)
One == Rat(1, 1)
RAdd(a, b) == Rat(a.n * b.d + b.n * a.d, a.d * b.d)
RMul(a, b) == Rat(a.n * b.n, a.d * b.d)
RDivInt(a, m) == Rat(a.n, a.d * m)
RLess(a, b) == a.n * b.d < b.n * a.d
RLeq(a, b) == a.n * b.d <= b.n * a.d

RECURSIVE RSum(_)
RSum(s) == IF s = <<>> THEN Zero ELSE RAdd(Head(s), RSum(Tail(s)))

\* iteration order of a Python set of small ints: ascending
SetAsList(S) ==
    [i \in 1..Cardinality(S) |->
        CHOOSE x \in S : Cardinality({y \in S : y < x}) = i - 1]

Range(s) == {s[i] : i \in 1..Len(s)}

\* s[:k] for k >= 0
Prefix(s, k) == SubSeq(s, 1, IF k < Len(s) THEN k ELSE Len(s))

\* variant: the list is left in input order
SortedDesc_unsorted(items, keys) == items

\* variant: an ascending sort reversed, so equal keys come out in reverse
\* input order
SortedDesc_reversedTies(items, keys) ==
    LET n == Len(items)
        pos(i) == 1 + Cardinality({j \in 1..n :
                        \/ RLess(keys[i], keys[j])
                        \/ (keys[j] = keys[i] /\ j > i)})
    IN [p \in 1..n |-> items[CHOOSE i \in 1..n : pos(i) = p]]

\* sorted(items, key=..., reverse=True): descending by key, equal keys keep
\* their input order.  keys[i] is the key of items[i].
SortedDesc(items, keys) ==
    LET n == Len(items)
        pos(i) == 1 + Cardinality({j \in 1..n :
                        \/ RLess(keys[i], keys[j])
                        \/ (keys[j] = keys[i] /\ j < i)})
    IN [p \in 1..n |-> items[CHOOSE i \in 1..n : pos(i) = p]]

-----------------------------------------------------------------------------
(* Configuration: recommendation_engine/config.py *)

W1 == Rat(80, 100)
W2 == Rat(10, 100)
W5 == Rat(10, 100)
ALPHA == Rat(6, 10)
OneMinusALPHA == Rat(4, 10)
TOP_K_SIMILAR == 3
PRIOR_M == 5

-----------------------------------------------------------------------------
(* Query layer: recommendation_engine/queries.py *)

\* dict.get(key, default)
DictGet(m, key, default) == IF key \in DOMAIN m THEN m[key] ELSE default

\* variant: every id is taken to name a student
get_student_any(db, student_id) == Some(student_id)

get_student(db, student_id) ==
    IF student_id \in db.students THEN Some(student_id) ELSE None

get_student_human_skills(db, student_id) ==
    SetAsList({r.skill_id : r \in {x \in db.student_human_skills :
                                        x.student_id = student_id}})

get_all_course_skills(db) == db.course_skills

get_course_technical_skills_map(db) ==
    LET tech == {s.id : s \in {x \in db.skills : x.type = "technical"}}
        rows == {r \in db.course_skills : r.skill_id \in tech}
    IN [c \in {r.course_id : r \in rows} |->
            {r.skill_id : r \in {x \in rows : x.course_id = c}}]

get_all_skills(db) == db.skills

get_career_goal_skills(db, career_goal_id) ==
    LET tech == {r.skill_id : r \in {x \in db.career_goal_technical_skills :
                                        x.career_goal_id = career_goal_id}}
        human == {r.skill_id : r \in {x \in db.career_goal_human_skills :
                                        x.career_goal_id = career_goal_id}}
    IN <<SetAsList(tech), SetAsList(human)>>

get_all_courses(db) == db.courses

\* course_id -> ids of the clusters the course is linked to
get_course_clusters_map(db) ==
    LET rows == {r \in db.course_clusters :
                    \E cluster \in db.clusters : r.cluster_id = cluster.id}
    IN [c \in {r.course_id : r \in rows} |->
            {r.cluster_id : r \in {x \in rows : x.course_id = c}}]

\* <<per-course stats, global mean>>
get_course_review_stats(db) ==
    LET rv == db.course_reviews
        scoresOf(c) == [i \in 1..Len(SelectSeq(rv, LAMBDA r : r.course_id = c)) |->
                           SelectSeq(rv, LAMBDA r : r.course_id = c)[i].final_score]
        stats == [c \in {rv[i].course_id : i \in 1..Len(rv)} |->
                    [n |-> Len(scoresOf(c)),
                     avg |-> RDivInt(RSum(scoresOf(c)), Len(scoresOf(c)))]]
        all == [i \in 1..Len(rv) |-> rv[i].final_score]
        global_mean == IF Len(rv) = 0 THEN None
                       ELSE Some(RDivInt(RSum(all), Len(rv)))
    IN <<stats, global_mean>>

get_course_prereqs(db) ==
    [c \in {r.course_id : r \in db.course_prerequisites} |->
        {r.required_course_id : r \in {x \in db.course_prerequisites :
                                            x.course_id = c}}]

get_student_completed_course_ids(db, student_id) ==
    LET rows == SelectSeq(db.student_courses,
                          LAMBDA r : r.student_id = student_id
                                     /\ r.status = "completed")
    IN [i \in 1..Len(rows) |-> rows[i].course_id]

-----------------------------------------------------------------------------
(* Engine: recommendation_engine/service.py *)

\* a local variable: `value` is computed once and handed to `Rest`
Let(value, Rest(_)) == CHOOSE out \in {Rest(v) : v \in {value}} : TRUE

\* variant: the match counts the shared clusters instead of testing for one
ClusterMatch_counting(clusters_a, clusters_b) ==
    Rat(Cardinality(clusters_a \cap clusters_b), 1)

\* cluster match (binary): 1.0 if the courses share a cluster, else 0.0
ClusterMatch(clusters_a, clusters_b) ==
    IF clusters_a \cap clusters_b # {} THEN One ELSE Zero

\* variant: the overlap is taken relative to the first course's skills only
TechOverlap_ofFirst(skills_a, skills_b) ==
    IF skills_a = {} /\ skills_b = {} THEN Zero
    ELSE IF Cardinality(skills_a) > 0
         THEN Rat(Cardinality(skills_a \cap skills_b), Cardinality(skills_a))
         ELSE Zero

\* variant: the union is sized as len(skills_a) + len(skills_b)
TechOverlap_sumOfSizes(skills_a, skills_b) ==
    IF skills_a = {} /\ skills_b = {} THEN Zero
    ELSE Rat(Cardinality(skills_a \cap skills_b),
             Cardinality(skills_a) + Cardinality(skills_b))

\* Jaccard similarity of the two technical-skill sets; 0.0 when both are empty
TechOverlap(skills_a, skills_b) ==
    IF skills_a = {} /\ skills_b = {} THEN Zero
    ELSE IF Cardinality(skills_a \cup skills_b) > 0
         THEN Rat(Cardinality(skills_a \cap skills_b), Cardinality(skills_a \cup skills_b))
         ELSE Zero

\* <<similarity, cluster_matched, tech_overlap_score>>
compute_course_similarity(course_a_id, course_b_id, course_clusters_map, tech_skills_map) ==
    Let(ClusterMatch(DictGet(course_clusters_map, course_a_id, {}),
                     DictGet(course_clusters_map, course_b_id, {})),
        LAMBDA cluster_match :
            Let(TechOverlap(DictGet(tech_skills_map, course_a_id, {}),
                            DictGet(tech_skills_map, course_b_id, {})),
                LAMBDA tech_overlap_score :
                    <<RAdd(RMul(ALPHA, cluster_match),
                           RMul(OneMinusALPHA, tech_overlap_score)),
                      cluster_match # Zero,
                      tech_overlap_score>>))

\* everything the call reads from the session before it computes anything
BulkFetch(db, student_id, career_goal_id) ==
    [all_courses |-> get_all_courses(db),
     all_skills |-> get_all_skills(db),
     course_clusters_map |-> get_course_clusters_map(db),
     course_tech_skills_map |-> get_course_technical_skills_map(db),
     course_skills_rows |-> get_all_course_skills(db),
     review_stats |-> get_course_review_stats(db)[1],
     global_mean |-> get_course_review_stats(db)[2],
     prereq_map |-> get_course_prereqs(db),
     student_completed_ids |-> get_student_completed_course_ids(db, student_id),
     student_human_skills |-> Range(get_student_human_skills(db, student_id)),
     R_tech |-> Range(get_career_goal_skills(db, career_goal_id)[1]),
     R_human |-> Range(get_career_goal_skills(db, career_goal_id)[2])]

\* skill_map.get(sid, '')
SkillName(all_skills, sid) ==
    IF \E s \in all_skills : s.id = sid
    THEN (CHOOSE s \in all_skills : s.id = sid).name
    ELSE ""

SkillInfoList(all_skills, ids) ==
    Let(SetAsList(ids), LAMBDA l :
        [i \in 1..Len(l) |-> [skill_id |-> l[i], name |-> SkillName(all_skills, l[i])]])

\* required human skills the student holds / lacks, and their ratio
OverlapHuman(R_human, held) == R_human \cap held

\* variant: operands of the difference swapped
MissingHuman_swapped(R_human, held) == held \ R_human

MissingHuman(R_human, held) == R_human \ held

\* variant: the ratio of an empty requirement is 0/1 instead of 1.0
SoftReadiness_emptyIsZero(R_human, held) ==
    IF R_human = {} THEN Zero
    ELSE Rat(Cardinality(OverlapHuman(R_human, held)), Cardinality(R_human))

SoftReadiness(R_human, held) ==
    IF R_human = {} THEN One
    ELSE Rat(Cardinality(OverlapHuman(R_human, held)), Cardinality(R_human))

\* variant: the gate tests < 0 and so never blocks
GateBlocks_negative(soft_readiness) == RLess(soft_readiness, Zero)

\* variant: the gate blocks any ratio below 1
GateBlocks_partial(soft_readiness) == RLess(soft_readiness, One)

\* the readiness gate: blocks when the ratio is zero
GateBlocks(soft_readiness) == soft_readiness = Zero

BLOCKED_REASON == "No overlap between student's human skills and required human skills for this goal"

\* soft readiness and blocker logic
Readiness(f) ==
    [soft_readiness |-> SoftReadiness(f.R_human, f.student_human_skills),
     overlap_human |->
        IF f.R_human = {} THEN <<>>
        ELSE SkillInfoList(f.all_skills, OverlapHuman(f.R_human, f.student_human_skills)),
     missing_human |->
        IF f.R_human = {} THEN <<>>
        ELSE SkillInfoList(f.all_skills, MissingHuman(f.R_human, f.student_human_skills)),
     blocked |-> f.R_human # {}
                 /\ GateBlocks(SoftReadiness(f.R_human, f.student_human_skills))]

\* course_skills_lookup.get(course_id, {}).get(skill_id, 0.0)
Relevance(course_skills_rows, course_id, skill_id) ==
    IF \E r \in course_skills_rows : r.course_id = course_id /\ r.skill_id = skill_id
    THEN Let(CHOOSE r \in course_skills_rows :
                r.course_id = course_id /\ r.skill_id = skill_id,
             LAMBDA r : IF r.relevance_score = None THEN Zero ELSE r.relevance_score[1])
    ELSE Zero

\* variant: completed courses are not removed
NotCompleted_all(all_courses, student_completed_ids) == all_courses

\* candidate filtering: the non-completed courses, in course order
NotCompleted(all_courses, student_completed_ids) ==
    SelectSeq(all_courses, LAMBDA c : c.id \notin Range(student_completed_ids))

\* variant: every prerequisite counts as missing, completed or not
MissingPrereqs_ignoreCompleted(prereq_map, student_completed_ids, course_id) ==
    SetAsList(DictGet(prereq_map, course_id, {}))

MissingPrereqs(prereq_map, student_completed_ids, course_id) ==
    SetAsList(DictGet(prereq_map, course_id, {}) \ Range(student_completed_ids))

\* variant: the prerequisite filter is applied whatever enforce_prereqs says
Candidates_alwaysFiltered(all_courses, student_completed_ids, prereq_map, enforce_prereqs) ==
    SelectSeq(NotCompleted(all_courses, student_completed_ids),
              LAMBDA c : MissingPrereqs(prereq_map, student_completed_ids, c.id) = <<>>)

\* variant: a course with missing prerequisites is recorded as blocked but
\* stays a candidate
Candidates_keepBlocked(all_courses, student_completed_ids, prereq_map, enforce_prereqs) ==
    NotCompleted(all_courses, student_completed_ids)

Candidates(all_courses, student_completed_ids, prereq_map, enforce_prereqs) ==
    IF enforce_prereqs
    THEN SelectSeq(NotCompleted(all_courses, student_completed_ids),
                   LAMBDA c : MissingPrereqs(prereq_map, student_completed_ids, c.id) = <<>>)
    ELSE NotCompleted(all_courses, student_completed_ids)

\* variant: the blocked list is a module-level list that is never cleared, so
\* each call appends to what the previous call left in it
BlockedCourses_accumulating(all_courses, student_completed_ids, prereq_map) ==
    Let(SelectSeq(NotCompleted(all_courses, student_completed_ids),
            LAMBDA c : MissingPrereqs(prereq_map, student_completed_ids, c.id) # <<>>),
        LAMBDA blocked :
            (IF response.kind = "returned" /\ response.blocked_courses # None
             THEN response.blocked_courses[1] ELSE <<>>)
            \o [i \in 1..Len(blocked) |->
                    [course_id |-> blocked[i].id,
                     course_name |-> blocked[i].name,
                     missing_prereqs |-> MissingPrereqs(prereq_map, student_completed_ids,
                                                        blocked[i].id)]])

BlockedCourses(all_courses, student_completed_ids, prereq_map) ==
    Let(SelectSeq(NotCompleted(all_courses, student_completed_ids),
            LAMBDA c : MissingPrereqs(prereq_map, student_completed_ids, c.id) # <<>>),
        LAMBDA blocked :
            [i \in 1..Len(blocked) |->
                [course_id |-> blocked[i].id,
                 course_name |-> blocked[i].name,
                 missing_prereqs |-> MissingPrereqs(prereq_map, student_completed_ids,
                                                    blocked[i].id)]])

\* variant: the sum is divided by the number of skills the course covers
\* instead of the number of required skills
SRole_overMatched(course_skills_rows, R_tech, course_id) ==
    IF R_tech = {} THEN Zero
    ELSE Let(SetAsList(R_tech), LAMBDA ids :
            Let(Cardinality({sid \in R_tech :
                    RLess(Zero, Relevance(course_skills_rows, course_id, sid))}),
                LAMBDA matched :
                    IF matched = 0 THEN Zero
                    ELSE RDivInt(RSum([i \in 1..Len(ids) |->
                                    Relevance(course_skills_rows, course_id, ids[i])]),
                                 matched)))

SRole(course_skills_rows, R_tech, course_id) ==
    IF R_tech = {} THEN Zero
    ELSE Let(SetAsList(R_tech), LAMBDA ids :
            RDivInt(RSum([i \in 1..Len(ids) |->
                            Relevance(course_skills_rows, course_id, ids[i])]),
                    Len(ids)))

\* name of the first course of the list with this id
CourseName(all_courses, id) ==
    all_courses[CHOOSE i \in 1..Len(all_courses) :
                    /\ all_courses[i].id = id
                    /\ \A j \in 1..(i - 1) : all_courses[j].id # id].name

SimRow(f, course_id, completed_id) ==
    Let(compute_course_similarity(course_id, completed_id,
                                  f.course_clusters_map, f.course_tech_skills_map),
        LAMBDA sim :
            [completed_course_id |-> completed_id,
             completed_course_name |-> CourseName(f.all_courses, completed_id),
             similarity_score |-> sim[1],
             cluster_matched |-> sim[2],
             tech_overlap_score |-> sim[3]])

\* variant: every similarity row is kept, none is cut
TopSims_all(f, course_id) ==
    Let(SelectSeq(f.student_completed_ids,
            LAMBDA id : \E i \in 1..Len(f.all_courses) : f.all_courses[i].id = id),
        LAMBDA found :
            Let([i \in 1..Len(found) |-> SimRow(f, course_id, found[i])],
                LAMBDA sims :
                    SortedDesc(sims, [i \in 1..Len(sims) |-> sims[i].similarity_score])))

\* variant: the rows are cut to TOP_K_SIMILAR before they are sorted
TopSims_firstK(f, course_id) ==
    Let(SelectSeq(f.student_completed_ids,
            LAMBDA id : \E i \in 1..Len(f.all_courses) : f.all_courses[i].id = id),
        LAMBDA found :
            Let(Prefix([i \in 1..Len(found) |-> SimRow(f, course_id, found[i])],
                       TOP_K_SIMILAR),
                LAMBDA sims :
                    SortedDesc(sims, [i \in 1..Len(sims) |-> sims[i].similarity_score])))

\* similarity rows of the candidate against each completed course that exists,
\* sorted by similarity descending and cut to TOP_K_SIMILAR
TopSims(f, course_id) ==
    Let(SelectSeq(f.student_completed_ids,
            LAMBDA id : \E i \in 1..Len(f.all_courses) : f.all_courses[i].id = id),
        LAMBDA found :
            Let([i \in 1..Len(found) |-> SimRow(f, course_id, found[i])],
                LAMBDA sims :
                    Prefix(SortedDesc(sims, [i \in 1..Len(sims) |-> sims[i].similarity_score]),
                           IF TOP_K_SIMILAR < Len(sims) THEN TOP_K_SIMILAR ELSE Len(sims))))

SAffinity(affinity_details) ==
    IF affinity_details = <<>> THEN Zero
    ELSE RDivInt(RSum([i \in 1..Len(affinity_details) |->
                          affinity_details[i].similarity_score]),
                 Len(affinity_details))

\* variant: the global mean is used on its 1-10 scale
BaselineC_unscaled(global_mean) ==
    IF global_mean # None THEN global_mean[1] ELSE Rat(1, 2)

\* C = global_mean / 10, or 0.5 when there is no review at all
BaselineC(global_mean) ==
    IF global_mean # None THEN RDivInt(global_mean[1], 10) ELSE Rat(1, 2)

\* variant: review_stats.get(course_id, {'n': 0, 'avg': 0.0})
StatsGet_defaultRecord(review_stats, course_id) ==
    IF course_id \in DOMAIN review_stats THEN Some(review_stats[course_id])
    ELSE Some([n |-> 0, avg |-> Zero])

\* review_stats.get(course_id)
StatsGet(review_stats, course_id) ==
    IF course_id \in DOMAIN review_stats THEN Some(review_stats[course_id]) ELSE None

\* variant: the two weights are exchanged, the prior weighs the raw average
QSmoothed_swapped(stats, C) ==
    LET n_reviews == IF stats # None THEN stats[1].n ELSE 0
        q_raw == IF stats # None THEN RDivInt(stats[1].avg, 10) ELSE C
        m == PRIOR_M
    IN IF m + n_reviews > 0
       THEN RDivInt(RAdd(RMul(Rat(m, 1), q_raw), RMul(Rat(n_reviews, 1), C)),
                    m + n_reviews)
       ELSE C

\* variant: no prior, the raw normalized average is returned
QSmoothed_raw(stats, C) ==
    IF stats # None THEN RDivInt(stats[1].avg, 10) ELSE C

QSmoothed(stats, C) ==
    LET n_reviews == IF stats # None THEN stats[1].n ELSE 0
        q_raw == IF stats # None THEN RDivInt(stats[1].avg, 10) ELSE C
        m == PRIOR_M
    IN IF m + n_reviews > 0
       THEN RDivInt(RAdd(RMul(Rat(m, 1), C), RMul(Rat(n_reviews, 1), q_raw)),
                    m + n_reviews)
       ELSE C

\* variant: W1 is applied to the affinity and W2 to the role fit
FinalScore_weightsCrossed(s_role, s_affinity, q_smoothed) ==
    RAdd(RAdd(RMul(W1, s_affinity), RMul(W2, s_role)), RMul(W5, q_smoothed))

FinalScore(s_role, s_affinity, q_smoothed) ==
    RAdd(RAdd(RMul(W1, s_role), RMul(W2, s_affinity)), RMul(W5, q_smoothed))

MatchedTechnical(f, course_id) ==
    Let(SetAsList({sid \in f.R_tech :
                      RLess(Zero, Relevance(f.course_skills_rows, course_id, sid))}),
        LAMBDA ids :
            [i \in 1..Len(ids) |->
                [skill_id |-> ids[i],
                 name |-> SkillName(f.all_skills, ids[i]),
                 relevance_score |-> Relevance(f.course_skills_rows, course_id, ids[i])]])

MissingTechnical(f, course_id) ==
    SetAsList({sid \in f.R_tech :
                  ~RLess(Zero, Relevance(f.course_skills_rows, course_id, sid))})

\* the three sub-scores of one candidate
Breakdown(f, c, affinity_details) ==
    [s_role |-> SRole(f.course_skills_rows, f.R_tech, c.id),
     s_affinity |-> SAffinity(affinity_details),
     q_smoothed |-> QSmoothed(StatsGet(f.review_stats, c.id), BaselineC(f.global_mean))]

Explained(f, c, affinity_details, stats, breakdown) ==
    [course_id |-> c.id,
     name |-> c.name,
     final_score |-> FinalScore(breakdown.s_role, breakdown.s_affinity,
                                breakdown.q_smoothed),
     breakdown |-> breakdown,
     avg_score_raw |-> IF stats # None THEN Some(stats[1].avg) ELSE None,
     review_count |-> IF stats # None THEN stats[1].n ELSE 0,
     matched_technical_skills |-> MatchedTechnical(f, c.id),
     missing_technical_skills |-> MissingTechnical(f, c.id),
     affinity_explanation |->
        IF affinity_details # <<>>
        THEN Some([top_contributing_courses |-> affinity_details])
        ELSE None]

\* one pass of the scoring loop
ScoreCourse(f, c) ==
    Let(IF f.student_completed_ids = <<>> THEN <<>> ELSE TopSims(f, c.id),
        LAMBDA affinity_details :
            Let(Breakdown(f, c, affinity_details),
                LAMBDA breakdown :
                    Explained(f, c, affinity_details,
                              StatsGet(f.review_stats, c.id), breakdown)))

\* variant: the list is cut to k before it is sorted
TopK_cutFirst(results, k) ==
    Let(Prefix(results, k), LAMBDA cut :
        SortedDesc(cut, [i \in 1..Len(cut) |-> cut[i].final_score]))

\* sort by final_score descending and keep the first k
TopK(results, k) ==
    Prefix(SortedDesc(results, [i \in 1..Len(results) |-> results[i].final_score]), k)

\* variant: the gated response leaves blocked_courses out in both modes
Gated_noList(r, enforce_prereqs) ==
    [kind |-> "returned",
     soft_readiness |-> r.soft_readiness,
     overlap_human_skills |-> r.overlap_human,
     missing_human_skills |-> r.missing_human,
     recommendations |-> <<>>,
     blocked_reason |-> Some(BLOCKED_REASON),
     blocked_courses |-> None]

Gated(r, enforce_prereqs) ==
    [kind |-> "returned",
     soft_readiness |-> r.soft_readiness,
     overlap_human_skills |-> r.overlap_human,
     missing_human_skills |-> r.missing_human,
     recommendations |-> <<>>,
     blocked_reason |-> Some(BLOCKED_REASON),
     blocked_courses |-> IF enforce_prereqs THEN Some(<<>>) ELSE None]

Ranked(f, r, k, enforce_prereqs) ==
    Let(Candidates(f.all_courses, f.student_completed_ids, f.prereq_map, enforce_prereqs),
        LAMBDA candidate_courses :
            Let([i \in 1..Len(candidate_courses) |-> ScoreCourse(f, candidate_courses[i])],
                LAMBDA results :
                    [kind |-> "returned",
                     soft_readiness |-> r.soft_readiness,
                     overlap_human_skills |-> r.overlap_human,
                     missing_human_skills |-> r.missing_human,
                     recommendations |-> TopK(results, k),
                     blocked_reason |-> None,
                     blocked_courses |->
                        IF enforce_prereqs
                        THEN Some(BlockedCourses(f.all_courses, f.student_completed_ids,
                                                 f.prereq_map))
                        ELSE None]))

Raised(msg) == [kind |-> "raised", error |-> msg]

recommend_courses(db, student_id, career_goal_id, k, enforce_prereqs) ==
    IF get_student(db, student_id) = None THEN Raised("Student not found")
    ELSE Let(BulkFetch(db, student_id, career_goal_id),
             LAMBDA f :
                Let(Readiness(f),
                    LAMBDA r : IF r.blocked THEN Gated(r, enforce_prereqs)
                               ELSE Ranked(f, r, k, enforce_prereqs)))

-----------------------------------------------------------------------------
(* The data the store is populated with *)

StudentIds == {1, 2}
GoalIds == {1, 2}

Course(id) == [id |-> id, name |-> <<"course", id>>]

\* a row of table clusters
Cluster(id, name) == [id |-> id, name |-> name]
Skill(id, type) == [id |-> id, name |-> <<"skill", id>>, type |-> type]

SkillRows == {Skill(1, "technical"), Skill(2, "technical"),
              Skill(3, "human"), Skill(4, "human")}

\* row order of the courses table as the query returns it
CoursesChoices == {<<Course(1), Course(2), Course(3)>>,
                   <<Course(3), Course(2), Course(1)>>}

\* completed-course ids of student 1, in row order (4 is not a course)
CompletedChoices == {<<>>, <<1>>, <<2, 1>>, <<4>>}

\* human skills held by student 1
HeldChoices == SUBSET {3, 4}

\* human skills required by goal 1 (5 is not in the skills table)
GoalHumanChoices == {{}, {3}, {3, 4}, {4, 5}}

\* technical skills required by goal 1
GoalTechChoices == {{}, {1}, {1, 2}}

CS(c, s, rel) == [course_id |-> c, skill_id |-> s, relevance_score |-> rel]
CC(c, cl) == [course_id |-> c, cluster_id |-> cl]
PR(c, r) == [course_id |-> c, required_course_id |-> r]

\* final_score values are those calculate_final_score yields (in tenths)
Review(c, score10) == [course_id |-> c, final_score |-> Rat(score10, 10)]

\* course annotations: none at all; distinct scores; tied scores
AnnotationChoices ==
    { [course_skills |-> {}, course_clusters |-> {}, course_reviews |-> <<>>],
      [course_skills |-> {CS(1, 1, Some(Rat(8, 10))), CS(1, 2, Some(Zero)),
                          CS(2, 1, Some(Rat(5, 10))), CS(2, 2, None),
                          CS(3, 2, Some(One)), CS(3, 3, Some(One))},
       course_clusters |-> {CC(1, 1), CC(2, 1), CC(2, 2), CC(3, 2)},
       course_reviews |-> <<Review(1, 60), Review(3, 20), Review(1, 84)>>],
      [course_skills |-> {CS(1, 1, Some(Rat(8, 10))), CS(1, 2, Some(Rat(8, 10))),
                          CS(2, 1, Some(Rat(8, 10))), CS(2, 2, Some(Rat(8, 10)))},
       course_clusters |-> {CC(1, 1), CC(2, 1), CC(3, 1)},
       course_reviews |-> <<Review(3, 100)>>] }

PrereqChoices ==
    { {}, {PR(2, 1)}, {PR(2, 1), PR(3, 1), PR(3, 2)} }

NoRequest == [student_id |-> 0, career_goal_id |-> 0, k |-> 0, enforce_prereqs |-> FALSE]
NoResponse == [kind |-> "none"]

Init ==
    /\ students = {1}
    /\ courses \in CoursesChoices
    /\ skills = SkillRows
    /\ career_goals = {1}
    /\ \E t \in GoalTechChoices :
          career_goal_technical_skills = {[career_goal_id |-> 1, skill_id |-> s] : s \in t}
    /\ \E h \in GoalHumanChoices :
          career_goal_human_skills = {[career_goal_id |-> 1, skill_id |-> s] : s \in h}
    /\ clusters = {Cluster(1, <<"cluster", 1>>), Cluster(2, <<"cluster", 2>>)}
    /\ \E a \in AnnotationChoices :
          /\ course_skills = a.course_skills
          /\ course_clusters = a.course_clusters
          /\ course_reviews = a.course_reviews
    /\ course_prerequisites \in PrereqChoices
    /\ \E done \in CompletedChoices :
          student_courses = [i \in 1..Len(done) |->
                                [student_id |-> 1, course_id |-> done[i],
                                 status |-> "completed"]]
    /\ \E held \in HeldChoices :
          student_human_skills = {[student_id |-> 1, skill_id |-> s] : s \in held}
    /\ request = NoRequest
    /\ response = NoResponse
    /\ calls = 0
    /\ repeated = FALSE

\* variant: the student lookup creates the row it does not find
Recommend_creating(student_id, career_goal_id, k, enforce_prereqs) ==
    /\ calls' = calls + 1
    /\ repeated' = (calls > 0 /\ request.student_id = student_id
                               /\ request.career_goal_id = career_goal_id
                               /\ request.k = k
                               /\ request.enforce_prereqs = enforce_prereqs)
    /\ request' = [student_id |-> student_id, career_goal_id |-> career_goal_id,
                   k |-> k, enforce_prereqs |-> enforce_prereqs]
    /\ response' = recommend_courses(DB, student_id, career_goal_id, k, enforce_prereqs)
    /\ students' = students \cup {student_id}
    /\ UNCHANGED <<courses, skills, career_goals, career_goal_technical_skills,
                   career_goal_human_skills, course_skills, clusters, course_clusters,
                   course_reviews, course_prerequisites, student_courses,
                   student_human_skills>>

\* a caller invokes recommend_courses(db, student_id, career_goal_id, k, enforce_prereqs)
Recommend(student_id, career_goal_id, k, enforce_prereqs) ==
    /\ calls' = calls + 1
    /\ repeated' = (calls > 0 /\ request.student_id = student_id
                               /\ request.career_goal_id = career_goal_id
                               /\ request.k = k
                               /\ request.enforce_prereqs = enforce_prereqs)
    /\ request' = [student_id |-> student_id, career_goal_id |-> career_goal_id,
                   k |-> k, enforce_prereqs |-> enforce_prereqs]
    /\ response' = recommend_courses(DB, student_id, career_goal_id, k, enforce_prereqs)
    /\ UNCHANGED tables

Next ==
    /\ calls = 0
    /\ \E student_id \in StudentIds, career_goal_id \in GoalIds,
          k \in 0..MaxK, enforce_prereqs \in BOOLEAN :
           Recommend(student_id, career_goal_id, k, enforce_prereqs)

\* every snapshot, one call
Spec == Init /\ [][Next]_vars

\* Successive calls on one snapshot: the annotated snapshots with
\* prerequisites, courses in id order, a partially ready student.
InitRepeat ==
    /\ Init
    /\ courses = <<Course(1), Course(2), Course(3)>>
    /\ course_skills # {}
    /\ course_prerequisites # {}
    /\ student_human_skills = {[student_id |-> 1, skill_id |-> 3]}

NextRepeat ==
    /\ calls < MaxRepeats
    /\ \E student_id \in StudentIds, career_goal_id \in GoalIds,
          k \in 0..MaxK, enforce_prereqs \in BOOLEAN :
           Recommend(student_id, career_goal_id, k, enforce_prereqs)

SpecRepeat == InitRepeat /\ [][NextRepeat]_vars

-----------------------------------------------------------------------------
(* Affinity: a catalogue of MaxCompleted + 1 courses and students who have
   completed up to MaxCompleted of them, so that more courses are completed
   than TOP_K_SIMILAR keeps. *)

AffinityCourses == [i \in 1..(MaxCompleted + 1) |-> Course(i)]

\* completed ids of student 1 in row order: the first n courses ascending and
\* descending, and a row whose course is no longer in the catalogue
AffinityCompletedChoices ==
    {[i \in 1..n |-> i] : n \in 0..MaxCompleted}
    \cup {[i \in 1..n |-> n + 1 - i] : n \in 2..MaxCompleted}
    \cup {<<MaxCompleted + 2>>, <<MaxCompleted + 2, 2, 1>>}

AffinityClusterChoices ==
    { {},
      {CC(c, 1 + (c % 2)) : c \in 1..(MaxCompleted + 1)},
      {CC(c, 1) : c \in {x \in 1..(MaxCompleted + 1) : x % 3 = 0}}
        \cup {CC(c, 2) : c \in {x \in 1..(MaxCompleted + 1) : x % 3 # 1}} }

AffinitySkillChoices ==
    { {},
      {CS(c, 1, Some(Rat(5, 10))) : c \in {x \in 1..(MaxCompleted + 1) : x % 2 = 0}}
        \cup {CS(c, 2, Some(Rat(5, 10))) : c \in {x \in 1..(MaxCompleted + 1) : x % 3 = 0}},
      {CS(c, 1, Some(One)) : c \in 1..(MaxCompleted + 1)}
        \cup {CS(c, 2, Some(One)) : c \in {1, 2, MaxCompleted + 1}} }

InitAffinity ==
    /\ students = {1}
    /\ courses = AffinityCourses
    /\ skills = SkillRows
    /\ career_goals = {1}
    /\ career_goal_technical_skills = {[career_goal_id |-> 1, skill_id |-> 1]}
    /\ career_goal_human_skills = {}
    /\ clusters = {Cluster(1, <<"cluster", 1>>), Cluster(2, <<"cluster", 2>>)}
    /\ course_skills \in AffinitySkillChoices
    /\ course_clusters \in AffinityClusterChoices
    /\ course_reviews = <<>>
    /\ course_prerequisites = {}
    /\ \E done \in AffinityCompletedChoices :
          student_courses = [i \in 1..Len(done) |->
                                [student_id |-> 1, course_id |-> done[i],
                                 status |-> "completed"]]
    /\ student_human_skills = {}
    /\ request = NoRequest
    /\ response = NoResponse
    /\ calls = 0
    /\ repeated = FALSE

SpecAffinity == InitAffinity /\ [][Next]_vars

-----------------------------------------------------------------------------
(* Review quality: three courses and every course_reviews table of up to
   MaxReviewRows rows over a few (course, final_score) pairs; role fit and
   affinity are 0 throughout. *)

ReviewRows == {Review(c, v) : c \in {1, 3}, v \in {20, 30, 100}}

ReviewTables == UNION {[1..n -> ReviewRows] : n \in 0..MaxReviewRows}

InitReviews ==
    /\ students = {1}
    /\ courses = <<Course(1), Course(2), Course(3)>>
    /\ skills = SkillRows
    /\ career_goals = {1}
    /\ career_goal_technical_skills = {}
    /\ career_goal_human_skills = {}
    /\ clusters = {}
    /\ course_skills = {}
    /\ course_clusters = {}
    /\ course_reviews \in ReviewTables
    /\ course_prerequisites = {}
    /\ student_courses = <<>>
    /\ student_human_skills = {}
    /\ request = NoRequest
    /\ response = NoResponse
    /\ calls = 0
    /\ repeated = FALSE

SpecReviews == InitReviews /\ [][Next]_vars

-----------------------------------------------------------------------------
(* The smoothing step on its own: a baseline C and a course average are fixed
   and the course's review count grows one review at a time. *)

\* C is a mean of final scores / 10, or 0.5; avg is a mean of final scores
SmoothingBaselines == {Rat(2, 10), Rat(1, 2), Rat(55, 100), Rat(84, 100), One}
SmoothingAverages == {Rat(2, 1), Rat(35, 10), Rat(5, 1), Rat(55, 10),
                      Rat(84, 10), Rat(10, 1)}

InitSmoothing ==
    /\ students = {} /\ courses = <<>> /\ skills = {} /\ career_goals = {}
    /\ career_goal_technical_skills = {} /\ career_goal_human_skills = {}
    /\ course_skills = {} /\ clusters = {} /\ course_clusters = {}
    /\ course_reviews = <<>> /\ course_prerequisites = {}
    /\ student_courses = <<>> /\ student_human_skills = {}
    /\ request \in [C : SmoothingBaselines, avg : SmoothingAverages, n : {0}]
    /\ response = NoResponse
    /\ calls = 0
    /\ repeated = FALSE

\* the course has no review: review_stats.get(c.id) is None
SmoothUnreviewed ==
    /\ response = NoResponse
    /\ response' = [kind |-> "q_smoothed", q_smoothed |-> QSmoothed(None, request.C)]
    /\ calls' = calls + 1
    /\ UNCHANGED <<tables, request, repeated>>

\* the course has one review more, its average and C as before
SmoothReviewed ==
    /\ response # NoResponse
    /\ request.n < MaxReviewCount
    /\ request' = [request EXCEPT !.n = @ + 1]
    /\ response' = [kind |-> "q_smoothed",
                    q_smoothed |-> QSmoothed(Some([n |-> request.n + 1,
                                                   avg |-> request.avg]),
                                             request.C)]
    /\ calls' = calls + 1
    /\ UNCHANGED <<tables, repeated>>

NextSmoothing == SmoothUnreviewed \/ SmoothReviewed

SpecSmoothing == InitSmoothing /\ [][NextSmoothing]_vars

-----------------------------------------------------------------------------
(* Sparse data: course 3 has no cluster, no skill row, no review and no
   prerequisite, next to courses that have them (or to none that do), and
   the goal may require a human skill that is not in the skills table. *)

SparseAnnotationChoices ==
    { [course_skills |-> {}, course_clusters |-> {}, course_reviews |-> <<>>,
       course_prerequisites |-> {}],
      [course_skills |-> {CS(1, 1, Some(Rat(8, 10))), CS(2, 1, Some(Rat(5, 10))),
                          CS(2, 2, None)},
       course_clusters |-> {CC(1, 1), CC(2, 1), CC(2, 2)},
       course_reviews |-> <<Review(1, 60), Review(2, 100), Review(1, 84)>>,
       course_prerequisites |-> {PR(2, 1)}] }

InitSparse ==
    /\ students = {1}
    /\ courses \in CoursesChoices
    /\ skills = SkillRows
    /\ career_goals = {1}
    /\ \E t \in {{}, {1, 2}} :
          career_goal_technical_skills = {[career_goal_id |-> 1, skill_id |-> s] : s \in t}
    /\ \E h \in {{}, {4, 5}} :
          career_goal_human_skills = {[career_goal_id |-> 1, skill_id |-> s] : s \in h}
    /\ clusters = {Cluster(1, <<"cluster", 1>>), Cluster(2, <<"cluster", 2>>)}
    /\ \E a \in SparseAnnotationChoices :
          /\ course_skills = a.course_skills
          /\ course_clusters = a.course_clusters
          /\ course_reviews = a.course_reviews
          /\ course_prerequisites = a.course_prerequisites
    /\ \E done \in {<<>>, <<1>>, <<2, 1>>} :
          student_courses = [i \in 1..Len(done) |->
                                [student_id |-> 1, course_id |-> done[i],
                                 status |-> "completed"]]
    /\ \E held \in {{}, {4}, {3, 4}} :
          student_human_skills = {[student_id |-> 1, skill_id |-> s] : s \in held}
    /\ request = NoRequest
    /\ response = NoResponse
    /\ calls = 0
    /\ repeated = FALSE

SpecSparse == InitSparse /\ [][Next]_vars

-----------------------------------------------------------------------------
(* Review creation: routes/course_reviews.py *)

\* round(x, 2) of a non-negative value: to the nearest hundredth, ties to even
Round2(x) ==
    LET scaled == x.n * 100
        floor == scaled \div x.d
        twice == 2 * (scaled % x.d)
    IN IF twice < x.d THEN Rat(floor, 100)
       ELSE IF twice > x.d THEN Rat(floor + 1, 100)
       ELSE IF floor % 2 = 0 THEN Rat(floor, 100) ELSE Rat(floor + 1, 100)

calculate_final_score(industry, instructor, useful) ==
    LET weighted_sum == (industry * 5) + (instructor * 2) + (useful * 3)
        score_1_to_5 == Rat(weighted_sum, 10)
        final_score == RMul(score_1_to_5, Rat(2, 1))
    IN Round2(final_score)

\* the integers a client may submit as a rating: the schema declares int and
\* nothing more, so values outside 1..5 are accepted
RatingInputs == {0, 1, 5, 6}

\* POST /reviews by the authenticated student
create_course_review(current_student, course_id, industry, instructor, useful) ==
    /\ calls' = calls + 1
    /\ request' = [course_id |-> course_id,
                   industry_relevance_rating |-> industry,
                   instructor_rating |-> instructor,
                   useful_learning_rating |-> useful]
    /\ IF \A i \in 1..Len(courses) : courses[i].id # course_id
       THEN /\ response' = [kind |-> "http_error", status_code |-> 404,
                            detail |-> "Course not found"]
            /\ UNCHANGED course_reviews
       ELSE /\ course_reviews' =
                  Append(course_reviews,
                         [student_id |-> current_student,
                          course_id |-> course_id,
                          industry_relevance_rating |-> industry,
                          instructor_rating |-> instructor,
                          useful_learning_rating |-> useful,
                          final_score |-> calculate_final_score(industry, instructor,
                                                                useful)])
            /\ response' = [kind |-> "created",
                            review |-> course_reviews'[Len(course_reviews')]]
    /\ UNCHANGED <<students, courses, skills, career_goals,
                   career_goal_technical_skills, career_goal_human_skills,
                   course_skills, clusters, course_clusters, course_prerequisites,
                   student_courses, student_human_skills, repeated>>

InitCreateReview ==
    /\ students = {1}
    /\ courses = <<Course(1)>>
    /\ skills = {} /\ career_goals = {}
    /\ career_goal_technical_skills = {} /\ career_goal_human_skills = {}
    /\ course_skills = {} /\ clusters = {} /\ course_clusters = {}
    /\ course_reviews = <<>> /\ course_prerequisites = {}
    /\ student_courses = <<>> /\ student_human_skills = {}
    /\ request = NoRequest
    /\ response = NoResponse
    /\ calls = 0
    /\ repeated = FALSE

NextCreateReview ==
    /\ calls < MaxCreated
    /\ \E current_student \in students, course_id \in {1, 2},
          industry \in RatingInputs, instructor \in RatingInputs,
          useful \in RatingInputs :
           create_course_review(current_student, course_id, industry, instructor, useful)

SpecCreateReview == InitCreateReview /\ [][NextCreateReview]_vars

-----------------------------------------------------------------------------
(* seed_clusters: the script that fills clusters and course_clusters.  One run
   is one step: it walks CLUSTERS_DATA in order, commits after each cluster and
   stops with exit code 1 at the first error, leaving what was committed. *)

CLUSTERS_DATA ==
    << [name |-> "Machine Learning",
        course_ids |-> <<19101, 10127, 10245, 10224, 10359, 10240, 10243, 10351,
                         10206>>],
       [name |-> "Cyber",
        course_ids |-> <<10147, 10313, 10208, 10233, 10227, 10248, 10234, 10228>>],
       [name |-> "User Interfaces",
        course_ids |-> <<10147, 10313, 10208, 10234, 10220, 10225, 10219, 10266>>],
       [name |-> "Game Development",
        course_ids |-> <<10128, 10220, 10267, 10342, 10207, 10147>>],
       [name |-> "Data Analysis",
        course_ids |-> <<90911, 10015, 10127, 10206, 10351, 10358>>],
       [name |-> "Software Development",
        course_ids |-> <<10010, 11015, 10356, 10110, 10142, 10149, 10212, 10216>>] >>

\* the value a serial primary key takes for the next inserted row
NextId(rows) ==
    IF rows = {} THEN 1
    ELSE 1 + (CHOOSE m \in {r.id : r \in rows} : \A r \in rows : r.id <= m)

\* db.query(Cluster).filter(Cluster.name == cluster_name).first()
ExistingCluster(db_clusters, cluster_name) ==
    LET found == {c \in db_clusters : c.name = cluster_name}
    IN IF found = {} THEN None ELSE Some(CHOOSE c \in found : TRUE)

\* variant: every course id passes for one in the table
CourseExists_always(db_courses, course_id) == TRUE

\* db.query(Course).filter(Course.id == course_id).first() found a row
CourseExists(db_courses, course_id) ==
    \E i \in 1..Len(db_courses) : db_courses[i].id = course_id

\* variant: the loop over course_ids stops after the first link it adds
NewLinkCourseIds_firstOnly(db_courses, db_links, cluster_id, course_ids) ==
    Prefix(SelectSeq(course_ids,
                     LAMBDA course_id :
                         /\ CourseExists(db_courses, course_id)
                         /\ ~\E link \in db_links : /\ link.course_id = course_id
                                                    /\ link.cluster_id = cluster_id),
           1)

\* the course ids of one cluster for which a link is added: the course exists
\* and no link of it to the cluster is stored yet
NewLinkCourseIds(db_courses, db_links, cluster_id, course_ids) ==
    SelectSeq(course_ids,
              LAMBDA course_id :
                  /\ CourseExists(db_courses, course_id)
                  /\ ~\E link \in db_links : /\ link.course_id = course_id
                                             /\ link.cluster_id = cluster_id)

\* db.add(CourseCluster(course_id, cluster_id)) for each id, ids in sequence
InsertLinks(db_links, cluster_id, course_ids) ==
    db_links \cup {[id |-> NextId(db_links) + (i - 1), course_id |-> course_ids[i],
                    cluster_id |-> cluster_id] : i \in 1..Len(course_ids)}

\* what the database refuses at flush or commit: a cluster name stored twice, a
\* (course_id, cluster_id) pair stored twice, a link to a course that is not there
IntegrityError(db_courses, db_clusters, db_links) ==
    \/ \E a \in db_clusters, b \in db_clusters : a.id # b.id /\ a.name = b.name
    \/ \E a \in db_links, b \in db_links :
           a.id # b.id /\ a.course_id = b.course_id /\ a.cluster_id = b.cluster_id
    \/ \E link \in db_links : ~CourseExists(db_courses, link.course_id)

\* one pass of the loop over CLUSTERS_DATA; session holds the two tables as
\* committed so far and the exit code
SeedCluster(session, cluster_data, db_courses) ==
    IF session.exit_code # 0 THEN session
    ELSE LET existing_cluster == ExistingCluster(session.clusters, cluster_data.name)
             cluster == IF existing_cluster # None THEN existing_cluster[1]
                        ELSE Cluster(NextId(session.clusters), cluster_data.name)
             flushed == session.clusters \cup {cluster}
             linked == InsertLinks(session.course_clusters, cluster.id,
                                   NewLinkCourseIds(db_courses, session.course_clusters,
                                                    cluster.id, cluster_data.course_ids))
         IN IF IntegrityError(db_courses, flushed, linked)
            THEN [session EXCEPT !.exit_code = 1]
            ELSE [clusters |-> flushed, course_clusters |-> linked, exit_code |-> 0]

RECURSIVE SeedFrom(_, _, _)
SeedFrom(session, i, db_courses) ==
    IF i > Len(CLUSTERS_DATA) THEN session
    ELSE SeedFrom(SeedCluster(session, CLUSTERS_DATA[i], db_courses), i + 1, db_courses)

\* the two tables after one run over the given ones
SeedRun(db_courses, db_clusters, db_links) ==
    SeedFrom([clusters |-> db_clusters, course_clusters |-> db_links, exit_code |-> 0],
             1, db_courses)

seed_clusters ==
    \E done \in {SeedRun(courses, clusters, course_clusters)} :
        /\ clusters' = done.clusters
        /\ course_clusters' = done.course_clusters
        /\ response' = [kind |-> IF done.exit_code = 0 THEN "seeded" ELSE "exit",
                        exit_code |-> done.exit_code]
        /\ request' = [kind |-> "seed_clusters"]
        /\ calls' = calls + 1
        /\ UNCHANGED <<students, courses, skills, career_goals,
                       career_goal_technical_skills, career_goal_human_skills,
                       course_skills, course_reviews, course_prerequisites,
                       student_courses, student_human_skills, repeated>>

\* every course id a cluster of CLUSTERS_DATA names
NamedCourseIds(i) == Range(CLUSTERS_DATA[i].course_ids)
AllNamedCourseIds == UNION {NamedCourseIds(i) : i \in 1..Len(CLUSTERS_DATA)}

\* the course tables a run starts over: the courses of any choice of clusters,
\* so that a cluster finds all, some or none of its courses
SeedCourseTables ==
    {UNION {NamedCourseIds(i) : i \in chosen} : chosen \in SUBSET (1..Len(CLUSTERS_DATA))}

\* what the script left behind before: it never ran, or it ran when the course
\* table held only these of today's courses
EarlierSeedings == {"never", "none", "Machine Learning", "all"}
EarlierCourses(table, earlier) ==
    CASE earlier = "none" -> {}
      [] earlier = "Machine Learning" -> table \cap NamedCourseIds(1)
      [] OTHER -> table

CourseTable(ids) == [i \in 1..Cardinality(ids) |-> Course(SetAsList(ids)[i])]

InitSeed ==
    /\ \E table \in SeedCourseTables, earlier \in EarlierSeedings :
          /\ courses = CourseTable(table)
          /\ IF earlier = "never"
             THEN clusters = {} /\ course_clusters = {}
             ELSE \E done \in {SeedRun(CourseTable(EarlierCourses(table, earlier)),
                                        {}, {})} :
                      /\ clusters = done.clusters
                      /\ course_clusters = done.course_clusters
    /\ students = {} /\ skills = {} /\ career_goals = {}
    /\ career_goal_technical_skills = {} /\ career_goal_human_skills = {}
    /\ course_skills = {} /\ course_reviews = <<>> /\ course_prerequisites = {}
    /\ student_courses = <<>> /\ student_human_skills = {}
    /\ request = NoRequest
    /\ response = NoResponse
    /\ calls = 0
    /\ repeated = FALSE

NextSeed == calls < MaxSeedRuns /\ seed_clusters

SpecSeed == InitSeed /\ [][NextSeed]_vars

-----------------------------------------------------------------------------
(* _compute_course_similarity on its own: every pair of ids over every pair of
   maps within the bounds.  A course may be missing from a map or be mapped to
   the empty collection. *)

\* the function reads the entries of its two ids only: two ids with an
\* entry and a third without one give every case
SimCourseIds == {1, 2}

SimMaps ==
    UNION {[D -> SUBSET (1..MaxSimItem)] : D \in SUBSET SimCourseIds}

InitSimilarity ==
    /\ students = {} /\ courses = <<>> /\ skills = {} /\ career_goals = {}
    /\ career_goal_technical_skills = {} /\ career_goal_human_skills = {}
    /\ course_skills = {} /\ clusters = {} /\ course_clusters = {}
    /\ course_reviews = <<>> /\ course_prerequisites = {}
    /\ student_courses = <<>> /\ student_human_skills = {}
    /\ request \in [course_a_id : SimCourseIds \cup {3},
                    course_b_id : SimCourseIds \cup {3},
                    course_clusters_map : SimMaps,
                    tech_skills_map : SimMaps]
    /\ response = NoResponse
    /\ calls = 0
    /\ repeated = FALSE

\* _compute_course_similarity(course_a_id, course_b_id, course_clusters_map, tech_skills_map)
ComputeSimilarity ==
    /\ calls = 0
    /\ calls' = 1
    /\ response' = [kind |-> "similarity",
                    result |-> compute_course_similarity(
                                  request.course_a_id, request.course_b_id,
                                  request.course_clusters_map, request.tech_skills_map)]
    /\ UNCHANGED <<tables, request, repeated>>

NextSimilarity == ComputeSimilarity

SpecSimilarity == InitSimilarity /\ [][NextSimilarity]_vars

-----------------------------------------------------------------------------
(* Properties of recommend_courses *)

Called == calls > 0
Returned == response.kind = "returned"
StudentExists == request.student_id \in students

\* what the tables say about the request's student and goal
RequiredHuman == {r.skill_id : r \in {x \in career_goal_human_skills :
                                        x.career_goal_id = request.career_goal_id}}
HeldHuman == {r.skill_id : r \in {x \in student_human_skills :
                                    x.student_id = request.student_id}}
CompletedIds == {student_courses[i].course_id :
                    i \in {j \in 1..Len(student_courses) :
                            /\ student_courses[j].student_id = request.student_id
                            /\ student_courses[j].status = "completed"}}
CourseIdsInTable == {courses[i].id : i \in 1..Len(courses)}
PrereqsOf(c) == {r.required_course_id : r \in {x \in course_prerequisites : x.course_id = c}}

RecIds == {response.recommendations[i].course_id : i \in 1..Len(response.recommendations)}
BlockedList == IF response.blocked_courses = None THEN <<>> ELSE response.blocked_courses[1]
BlockedIds == {BlockedList[i].course_id : i \in 1..Len(BlockedList)}
SkillIds(list) == {list[i].skill_id : i \in 1..Len(list)}

\* C1: when the goal's required human-skill set is non-empty and disjoint from
\* the student's held set, the call returns a response with blocked_reason not
\* null and an empty recommendations list, for every k and enforce_prereqs.
C1_ZeroOverlapBlocks ==
    (Called /\ StudentExists /\ RequiredHuman # {} /\ RequiredHuman \cap HeldHuman = {})
        => /\ Returned
           /\ response.blocked_reason # None
           /\ response.recommendations = <<>>

\* a call was gated although non-completed courses exist and the student
\* holds a human skill (one the goal does not require)
C1_Witness ==
    /\ Called /\ StudentExists
    /\ RequiredHuman # {} /\ HeldHuman # {} /\ RequiredHuman \cap HeldHuman = {}
    /\ CourseIdsInTable \ CompletedIds # {}
    /\ request.k > 0
    /\ Returned /\ response.blocked_reason # None

\* C2: when the goal requires no human skill the response reports
\* soft_readiness 1.0, empty overlap and missing lists and no blocked_reason,
\* whatever the student holds.
C2_NoRequirementIsReady ==
    (Called /\ StudentExists /\ RequiredHuman = {})
        => /\ Returned
           /\ response.soft_readiness = One
           /\ response.overlap_human_skills = <<>>
           /\ response.missing_human_skills = <<>>
           /\ response.blocked_reason = None

C2_Witness ==
    /\ Called /\ StudentExists
    /\ request.career_goal_id \in career_goals
    /\ RequiredHuman = {} /\ HeldHuman # {}
    /\ Returned /\ response.soft_readiness = One

\* the session as it would be if the request's student held exactly `held`
DBWithHeld(held) ==
    [DB EXCEPT !.student_human_skills =
        {r \in student_human_skills : r.student_id # request.student_id}
        \cup {[student_id |-> request.student_id, skill_id |-> s] : s \in held}]

HumanSkillUniverse == {3, 4, 5}

\* C3: a readiness ratio above 0 never blocks and does not touch the scoring:
\* the same request made for any other held set that also overlaps the
\* requirement gives blocked_reason null in both responses, the same
\* recommendations (courses, order, scores, breakdown) and the same
\* blocked_courses.
C3_ReadinessDoesNotScore ==
    (Called /\ StudentExists /\ RequiredHuman \cap HeldHuman # {})
        => \A held2 \in SUBSET HumanSkillUniverse :
              RequiredHuman \cap held2 # {}
                => LET other == recommend_courses(DBWithHeld(held2),
                                    request.student_id, request.career_goal_id,
                                    request.k, request.enforce_prereqs)
                   IN /\ Returned /\ other.kind = "returned"
                      /\ response.blocked_reason = None
                      /\ other.blocked_reason = None
                      /\ other.recommendations = response.recommendations
                      /\ other.blocked_courses = response.blocked_courses

\* a partially ready student (ratio strictly between 0 and 1) got scored
\* recommendations
C3_Witness ==
    /\ Called /\ StudentExists
    /\ RequiredHuman \cap HeldHuman # {} /\ RequiredHuman \ HeldHuman # {}
    /\ Returned /\ Len(response.recommendations) >= 2

\* C4: when the goal requires a human skill, overlap_human_skills lists
\* exactly required \cap held, missing_human_skills exactly required \ held
\* (each id once), and soft_readiness = |overlap| / |required|, within [0,1].
C4_OverlapMissingRatio ==
    (Called /\ StudentExists /\ RequiredHuman # {})
        => /\ Returned
           /\ SkillIds(response.overlap_human_skills) = RequiredHuman \cap HeldHuman
           /\ SkillIds(response.missing_human_skills) = RequiredHuman \ HeldHuman
           /\ Len(response.overlap_human_skills) = Cardinality(RequiredHuman \cap HeldHuman)
           /\ Len(response.missing_human_skills) = Cardinality(RequiredHuman \ HeldHuman)
           /\ SkillIds(response.overlap_human_skills)
                \cap SkillIds(response.missing_human_skills) = {}
           /\ SkillIds(response.overlap_human_skills)
                \cup SkillIds(response.missing_human_skills) = RequiredHuman
           /\ response.soft_readiness.n * Cardinality(RequiredHuman)
                = Cardinality(RequiredHuman \cap HeldHuman) * response.soft_readiness.d
           /\ RLeq(Zero, response.soft_readiness)
           /\ RLeq(response.soft_readiness, One)

\* overlap and missing both non-empty, and the student holds a skill the goal
\* does not require
C4_Witness ==
    /\ Called /\ StudentExists
    /\ RequiredHuman \cap HeldHuman # {} /\ RequiredHuman \ HeldHuman # {}
    /\ HeldHuman \ RequiredHuman # {}
    /\ Returned /\ response.soft_readiness = Rat(1, 2)

\* C5: in every response the final_score values of recommendations are
\* non-increasing from first to last.
C5_ScoresNonIncreasing ==
    (Called /\ Returned)
        => \A i \in 1..Len(response.recommendations) :
              \A j \in 1..Len(response.recommendations) :
                 i < j => RLeq(response.recommendations[j].final_score,
                               response.recommendations[i].final_score)

\* position of a course in the courses table
CoursePos(id) == CHOOSE i \in 1..Len(courses) : courses[i].id = id

\* two recommendations with different scores, listed against table order
C5_Witness ==
    /\ Called /\ Returned
    /\ Len(response.recommendations) >= 2
    /\ RLess(response.recommendations[2].final_score,
             response.recommendations[1].final_score)
    /\ CoursePos(response.recommendations[2].course_id)
         < CoursePos(response.recommendations[1].course_id)

\* the entries of blocked_courses for course c
BlockedEntries(c) == {i \in 1..Len(BlockedList) : BlockedList[i].course_id = c}

\* C6: with enforce_prereqs true and the gate not blocking, every
\* non-completed course with a non-empty (prerequisites minus completed) is
\* listed in blocked_courses with missing_prereqs exactly that difference and
\* is not recommended; a course with no prerequisite entry, or with all of
\* them completed, is not in blocked_courses.
C6_PrereqBlocking ==
    (Called /\ Returned /\ request.enforce_prereqs /\ response.blocked_reason = None)
        => /\ response.blocked_courses # None
           /\ \A c \in CourseIdsInTable \ CompletedIds :
                 LET missing == PrereqsOf(c) \ CompletedIds
                 IN IF missing # {}
                    THEN /\ Cardinality(BlockedEntries(c)) = 1
                         /\ \A i \in BlockedEntries(c) :
                               /\ Range(BlockedList[i].missing_prereqs) = missing
                               /\ Len(BlockedList[i].missing_prereqs) = Cardinality(missing)
                         /\ c \notin RecIds
                    ELSE c \notin BlockedIds

\* one course blocked on a prerequisite while another, whose prerequisites
\* are all completed, is recommended
C6_Witness ==
    /\ Called /\ Returned /\ request.enforce_prereqs
    /\ response.blocked_reason = None
    /\ BlockedIds # {}
    /\ \E c \in RecIds : PrereqsOf(c) # {} /\ PrereqsOf(c) \subseteq CompletedIds

\* C7: no course in the student's completed set appears in recommendations
\* or in blocked_courses, for any k and either enforce_prereqs.
C7_CompletedExcluded ==
    (Called /\ Returned)
        => /\ RecIds \cap CompletedIds = {}
           /\ BlockedIds \cap CompletedIds = {}

\* the student completed courses of the table, others were recommended and
\* (with enforcement) blocked
C7_Witness ==
    /\ Called /\ Returned
    /\ CompletedIds \cap CourseIdsInTable # {}
    /\ RecIds # {}
    /\ BlockedIds # {}

\* C8: a call naming a student that is not in the students table raises
\* "Student not found" and yields no response object, whatever the goal, k
\* and enforce_prereqs.
C8_UnknownStudentRaises ==
    (Called /\ ~StudentExists) => response = Raised("Student not found")

\* an unknown student asked about a goal whose human requirement nobody meets
C8_Witness ==
    /\ Called /\ ~StudentExists
    /\ request.career_goal_id \in career_goals
    /\ RequiredHuman # {}
    /\ response.kind = "raised"

\* C9: a call naming a career goal that is not in the career_goals table
\* fails with a not-found condition instead of returning a response.
C9_UnknownGoalRaises ==
    (Called /\ StudentExists /\ request.career_goal_id \notin career_goals)
        => response.kind = "raised"

C11_StoreUnchanged ==
    [][calls' = calls + 1 =>
          /\ students' = students /\ courses' = courses /\ skills' = skills
          /\ career_goals' = career_goals
          /\ career_goal_technical_skills' = career_goal_technical_skills
          /\ career_goal_human_skills' = career_goal_human_skills
          /\ course_skills' = course_skills
          /\ clusters' = clusters /\ course_clusters' = course_clusters
          /\ course_prerequisites' = course_prerequisites
          /\ course_reviews' = course_reviews
          /\ student_courses' = student_courses
          /\ student_human_skills' = student_human_skills]_vars

\* a call for a student that is not in the table raised, over a store that
\* holds reviews, prerequisites and completed courses
C11_Witness ==
    /\ Called /\ ~StudentExists
    /\ response.kind = "raised"
    /\ course_reviews # <<>> /\ course_prerequisites # {}
    /\ student_courses # <<>> /\ student_human_skills # {}

-----------------------------------------------------------------------------
(* Properties of _compute_course_similarity *)

SimilarityDone == response.kind = "similarity"
ClustersOf(id) == DictGet(request.course_clusters_map, id, {})
TechOf(id) == DictGet(request.tech_skills_map, id, {})

\* C12: the triple (similarity, cluster_matched, tech_overlap_score) computed
\* for (A, B) equals the triple computed for (B, A), for all ids and maps.
C12_Symmetric ==
    SimilarityDone =>
        response.result = compute_course_similarity(
                              request.course_b_id, request.course_a_id,
                              request.course_clusters_map, request.tech_skills_map)

\* two different courses with different, overlapping skill sets and different
\* cluster sets that share a cluster
C12_Witness ==
    /\ SimilarityDone
    /\ request.course_a_id # request.course_b_id
    /\ ClustersOf(request.course_a_id) # ClustersOf(request.course_b_id)
    /\ Cardinality(TechOf(request.course_a_id)) < Cardinality(TechOf(request.course_b_id))
    /\ response.result = <<Rat(8, 10), TRUE, Rat(1, 2)>>

SelfSimilarity == SimilarityDone /\ request.course_a_id = request.course_b_id

\* C13 as stated: the similarity of a course A with itself has
\* tech_overlap_score = 1.0, and cluster_matched = true with a score of at
\* least ALPHA when A belongs to a cluster.
C13_SelfSimilarity_AsStated ==
    SelfSimilarity =>
        /\ response.result[3] = One
        /\ ClustersOf(request.course_a_id) # {}
              => (response.result[2] /\ RLeq(ALPHA, response.result[1]))

\* C13: the similarity of a course A with itself has tech_overlap_score = 1.0
\* when A has a technical skill and 0.0 when it has none; when A belongs to a
\* cluster cluster_matched is true and the score is at least ALPHA.
C13_SelfSimilarity ==
    SelfSimilarity =>
        /\ TechOf(request.course_a_id) # {} => response.result[3] = One
        /\ TechOf(request.course_a_id) = {} => response.result[3] = Zero
        /\ ClustersOf(request.course_a_id) # {}
              => (response.result[2] /\ RLeq(ALPHA, response.result[1]))

\* a course with two clusters and two technical skills compared with itself
C13_Witness ==
    /\ SelfSimilarity
    /\ Cardinality(ClustersOf(request.course_a_id)) = 2
    /\ Cardinality(TechOf(request.course_a_id)) = 2
    /\ response.result = <<One, TRUE, One>>

\* C14: tech_overlap_score = |A \cap B| / |A \cup B| over the two technical
\* skill sets, within [0,1], and 0.0 when both are empty or absent from the
\* map; cluster_matched holds iff the courses share a cluster id, however
\* many; similarity = ALPHA*cluster_matched + (1-ALPHA)*tech_overlap_score.
C14_JaccardAndBlend ==
    SimilarityDone =>
        LET A == TechOf(request.course_a_id)
            B == TechOf(request.course_b_id)
            shared == ClustersOf(request.course_a_id) \cap ClustersOf(request.course_b_id)
            sim == response.result[1]
            matched == response.result[2]
            t == response.result[3]
            m == IF matched THEN 1 ELSE 0
        IN /\ (A \cup B = {}) => t = Zero
           /\ (A \cup B # {}) =>
                 t.n * Cardinality(A \cup B) = Cardinality(A \cap B) * t.d
           /\ RLeq(Zero, t) /\ RLeq(t, One)
           /\ matched <=> (shared # {})
           \* 10 * sim = 6 * m + 4 * t
           /\ 10 * sim.n * t.d = (6 * m * t.d + 4 * t.n) * sim.d

\* two courses sharing two clusters, one mapped to the empty skill set and
\* the other absent from the skill map
C14_Witness ==
    /\ SimilarityDone
    /\ request.course_a_id # request.course_b_id
    /\ Cardinality(ClustersOf(request.course_a_id)
                     \cap ClustersOf(request.course_b_id)) = 2
    /\ request.course_a_id \in DOMAIN request.tech_skills_map
    /\ TechOf(request.course_a_id) = {}
    /\ request.course_b_id \notin DOMAIN request.tech_skills_map
    /\ response.result = <<ALPHA, TRUE, Zero>>

-----------------------------------------------------------------------------
(* Properties of the sub-scores *)

Recs == response.recommendations

RequiredTech == {r.skill_id : r \in {x \in career_goal_technical_skills :
                                        x.career_goal_id = request.career_goal_id}}

\* the relevance the course_skills table stores for (course, skill): 0 when
\* there is no row or the stored value is null
StoredRelevance(c, sid) ==
    LET rows == {r \in course_skills : r.course_id = c /\ r.skill_id = sid}
    IN IF rows = {} THEN Zero
       ELSE LET r == CHOOSE x \in rows : TRUE
            IN IF r.relevance_score = None THEN Zero ELSE r.relevance_score[1]

RECURSIVE StoredRelevanceSum(_, _)
StoredRelevanceSum(c, S) ==
    IF S = {} THEN Zero
    ELSE LET sid == CHOOSE x \in S : TRUE
         IN RAdd(StoredRelevance(c, sid), StoredRelevanceSum(c, S \ {sid}))

\* C15: for every recommended course s_role is 0.0 when the goal requires no
\* technical skill, and otherwise the sum over the required technical skills
\* of the course's stored relevance (0 for no row or null) divided by the
\* number of required technical skills.
C15_RoleFit ==
    (Called /\ Returned) =>
        \A i \in 1..Len(Recs) :
            Recs[i].breakdown.s_role =
                IF RequiredTech = {} THEN Zero
                ELSE RDivInt(StoredRelevanceSum(Recs[i].course_id, RequiredTech),
                             Cardinality(RequiredTech))

\* relevances 0.8 and 0.0 over two required skills give 0.4
C15_Witness ==
    /\ Called /\ Returned
    /\ Cardinality(RequiredTech) = 2
    /\ \E i \in 1..Len(Recs) :
          /\ {StoredRelevance(Recs[i].course_id, sid) : sid \in RequiredTech}
                = {Rat(8, 10), Zero}
          /\ Recs[i].breakdown.s_role = Rat(4, 10)

\* what the tables say about two courses: clusters, technical skills and the
\* blended similarity 0.6 * shared-cluster + 0.4 * Jaccard
StoredClusters(c) ==
    {r.cluster_id : r \in {x \in course_clusters :
                              x.course_id = c /\ \E cluster \in clusters :
                                                    x.cluster_id = cluster.id}}
StoredTech(c) ==
    {r.skill_id : r \in {x \in course_skills :
                            /\ x.course_id = c
                            /\ \E sk \in skills : sk.id = x.skill_id
                                                  /\ sk.type = "technical"}}
StoredSimilarity(a, b) ==
    LET m == IF StoredClusters(a) \cap StoredClusters(b) # {} THEN 1 ELSE 0
        u == Cardinality(StoredTech(a) \cup StoredTech(b))
        i == Cardinality(StoredTech(a) \cap StoredTech(b))
    IN IF u = 0 THEN Rat(6 * m, 10) ELSE Rat(6 * m * u + 4 * i, 10 * u)

RECURSIVE StoredSimilaritySum(_, _)
StoredSimilaritySum(c, S) ==
    IF S = {} THEN Zero
    ELSE LET d == CHOOSE x \in S : TRUE
         IN RAdd(StoredSimilarity(c, d), StoredSimilaritySum(c, S \ {d}))

\* the completed courses of the request's student that are in the catalogue
CompletedCourses == CompletedIds \cap CourseIdsInTable
TopCount == IF TOP_K_SIMILAR < Cardinality(CompletedCourses)
            THEN TOP_K_SIMILAR ELSE Cardinality(CompletedCourses)

\* the sets of TopCount completed courses most similar to c
TopSets(c) ==
    {T \in SUBSET CompletedCourses :
        /\ Cardinality(T) = TopCount
        /\ \A x \in T : \A y \in CompletedCourses \ T :
              RLeq(StoredSimilarity(c, y), StoredSimilarity(c, x))}

TopContributing(i) ==
    IF Recs[i].affinity_explanation = None THEN <<>>
    ELSE Recs[i].affinity_explanation[1].top_contributing_courses

StoredScores(c) ==
    LET rows == SelectSeq(course_reviews, LAMBDA r : r.course_id = c)
    IN [i \in 1..Len(rows) |-> rows[i].final_score]
AllStoredScores == [i \in 1..Len(course_reviews) |-> course_reviews[i].final_score]

\* the global review mean divided by 10, 0.5 with no review anywhere
GlobalC ==
    IF course_reviews = <<>> THEN Rat(1, 2)
    ELSE RDivInt(RSum(AllStoredScores), 10 * Len(course_reviews))

\* C18: for every recommended course q_smoothed = (PRIOR_M*C + n*avg) /
\* (PRIOR_M + n) with C the global review mean / 10 (0.5 with no review at
\* all), n the course's review count and avg its mean / 10; it equals C when
\* the course has no review.
C18_BayesianSmoothing ==
    (Called /\ Returned) =>
        \A i \in 1..Len(Recs) :
            LET scores == StoredScores(Recs[i].course_id)
                n == Len(scores)
                \* n * avg = (sum of the course's scores) / 10
                weighted == RDivInt(RSum(scores), 10)
            IN /\ Recs[i].breakdown.q_smoothed =
                    RDivInt(RAdd(RMul(Rat(PRIOR_M, 1), GlobalC), weighted), PRIOR_M + n)
               /\ n = 0 => Recs[i].breakdown.q_smoothed = GlobalC
               /\ Recs[i].review_count = n

\* PRIOR_M = 5, C = 0.5, n = 1, avg = 1.0 give 3.5/6, next to a course with
\* no review at C
C18_Witness ==
    /\ Called /\ Returned
    /\ GlobalC = Rat(1, 2)
    /\ Len(Recs) = 2
    /\ StoredScores(Recs[1].course_id) = <<Rat(10, 1)>>
    /\ Recs[1].breakdown.q_smoothed = Rat(35, 60)
    /\ StoredScores(Recs[2].course_id) = <<>>
    /\ Recs[2].breakdown.q_smoothed = Rat(1, 2)

-----------------------------------------------------------------------------
(* Properties of the smoothing step *)

\* |a - b|
RDist(a, b) ==
    IF RLeq(a, b) THEN Rat(b.n * a.d - a.n * b.d, a.d * b.d)
    ELSE Rat(a.n * b.d - b.n * a.d, a.d * b.d)

Smoothed == response.kind = "q_smoothed"
NormalizedAvg == RDivInt(request.avg, 10)

\* q_smoothed lies between C and the normalized average, inclusive
SmoothedBetween(q) ==
    \/ RLeq(request.C, q) /\ RLeq(q, NormalizedAvg)
    \/ RLeq(NormalizedAvg, q) /\ RLeq(q, request.C)

\* C19: for fixed C and avg, q_smoothed always lies between C and avg
\* (inclusive), and as the review count grows by one |q_smoothed - avg| does
\* not grow, and shrinks strictly when avg differs from C.
C19_ConvergesToAverage ==
    [][(Smoothed /\ response'.kind = "q_smoothed" /\ request'.n = request.n + 1) =>
          /\ SmoothedBetween(response.q_smoothed)
          /\ SmoothedBetween(response'.q_smoothed)
          /\ LET before == RDist(response.q_smoothed, NormalizedAvg)
                 \* the distance after the step, for the unchanged C and avg
                 after == RDist(response'.q_smoothed, NormalizedAvg)
             IN /\ RLeq(after, before)
                /\ NormalizedAvg # request.C => RLess(after, before)
                /\ (request.n = 0) => before = RDist(request.C, NormalizedAvg)]_vars

\* after MaxReviewCount reviews of a course whose average is above C the
\* smoothed value is strictly between the two
C19_Witness ==
    /\ Smoothed
    /\ request.n = MaxReviewCount
    /\ RLess(request.C, response.q_smoothed)
    /\ RLess(response.q_smoothed, NormalizedAvg)

-----------------------------------------------------------------------------
(* Properties of the final score *)

\* C20: for every recommendation final_score = 0.80*s_role + 0.10*s_affinity
\* + 0.10*q_smoothed over the three values of the same entry's breakdown, and
\* the configured weights W1, W2, W5 sum to exactly 1.0.
C20_WeightedSum ==
    (Called /\ Returned) =>
        /\ RAdd(RAdd(W1, W2), W5) = One
        /\ \A i \in 1..Len(Recs) :
              \* 10 * final_score = 8 * s_role + s_affinity + q_smoothed
              RMul(Rat(10, 1), Recs[i].final_score) =
                 RAdd(RAdd(RMul(Rat(8, 1), Recs[i].breakdown.s_role),
                           Recs[i].breakdown.s_affinity),
                      Recs[i].breakdown.q_smoothed)

\* a recommendation whose three sub-scores are all positive and all different
C20_Witness ==
    /\ Called /\ Returned
    /\ \E i \in 1..Len(Recs) :
          /\ RLess(Zero, Recs[i].breakdown.s_affinity)
          /\ RLess(Recs[i].breakdown.s_affinity, Recs[i].breakdown.s_role)
          /\ Recs[i].breakdown.q_smoothed # Recs[i].breakdown.s_role
          /\ Recs[i].breakdown.q_smoothed # Recs[i].breakdown.s_affinity
          /\ RLess(Zero, Recs[i].breakdown.q_smoothed)

-----------------------------------------------------------------------------
(* Properties of the ranking *)

Gate == Returned /\ response.blocked_reason # None
Ranking == Returned /\ response.blocked_reason = None

\* the courses the tables make candidates for scoring under the request
EligibleIds ==
    IF request.enforce_prereqs
    THEN {c \in CourseIdsInTable \ CompletedIds : PrereqsOf(c) \ CompletedIds = {}}
    ELSE CourseIdsInTable \ CompletedIds

\* every scored candidate with its score: the request with k = number of courses
AllScored ==
    recommend_courses(DB, request.student_id, request.career_goal_id,
                      Len(courses), request.enforce_prereqs).recommendations

\* the scored candidates that are not among the recommendations
LeftOut(all) == {j \in 1..Len(all) : all[j].course_id \notin RecIds}

HighestListed(all) ==
    /\ {all[j].course_id : j \in 1..Len(all)} = EligibleIds
    /\ \A i \in 1..Len(Recs) : \E j \in 1..Len(all) : all[j] = Recs[i]
    /\ \A j \in LeftOut(all) : \A i \in 1..Len(Recs) :
          RLeq(all[j].final_score, Recs[i].final_score)

\* C21: the recommendations list has exactly min(k, number of scored
\* candidates) entries, each a different scored candidate, and no scored
\* candidate left out has a final_score strictly greater than a listed one.
C21_TopKHighest ==
    (Called /\ Ranking) =>
        /\ Len(Recs) = IF request.k < Cardinality(EligibleIds)
                       THEN request.k ELSE Cardinality(EligibleIds)
        /\ Cardinality(RecIds) = Len(Recs)
        /\ RecIds \subseteq EligibleIds
        /\ Let(AllScored, LAMBDA all : HighestListed(all))

\* k cuts the list, and the best candidate is not the first of the course
\* list: a candidate with a strictly lower score is left out
C21_Witness ==
    /\ Called /\ Ranking
    /\ request.k = 1 /\ Len(Recs) = 1
    /\ Cardinality(EligibleIds) = 3
    /\ Recs[1].course_id # courses[1].id
    /\ Let(AllScored, LAMBDA all :
            \E j \in 1..Len(all) : RLess(all[j].final_score, Recs[1].final_score))

TiesKeepEarlier(all) ==
    \A j \in LeftOut(all) : \A i \in 1..Len(Recs) :
        Recs[i].final_score = all[j].final_score
           => CoursePos(Recs[i].course_id) < CoursePos(all[j].course_id)

\* C22: two recommended courses with equal final_score appear in the order
\* in which they occur in the course list, and when the cut to k goes
\* through a group of equal scores the courses kept are the earlier ones of
\* the course list.
C22_StableRanking ==
    (Called /\ Ranking) =>
        /\ \A i \in 1..Len(Recs) : \A j \in 1..Len(Recs) :
              (i < j /\ Recs[i].final_score = Recs[j].final_score)
                 => CoursePos(Recs[i].course_id) < CoursePos(Recs[j].course_id)
        /\ Let(AllScored, LAMBDA all : TiesKeepEarlier(all))

\* the cut goes through a tie: the course kept comes before the one cut in a
\* course list that is not in id order, and a third candidate scores less
C22_Witness ==
    /\ Called /\ Ranking
    /\ Len(Recs) >= 1
    /\ Let(AllScored, LAMBDA all :
            /\ \E j \in LeftOut(all) :
                  /\ all[j].final_score = Recs[Len(Recs)].final_score
                  /\ all[j].course_id < Recs[Len(Recs)].course_id
            /\ \E j \in LeftOut(all) :
                  RLess(all[j].final_score, Recs[Len(Recs)].final_score))

-----------------------------------------------------------------------------
(* Properties of prerequisite enforcement *)

\* the same request with enforce_prereqs the other way round
Counterpart ==
    recommend_courses(DB, request.student_id, request.career_goal_id,
                      request.k, ~request.enforce_prereqs)

NotCompletedIds == CourseIdsInTable \ CompletedIds

\* C23: for the same snapshot, student, goal and k, enforce_prereqs = false
\* returns at least as many recommendations as enforce_prereqs = true; with
\* enforce_prereqs = false no course is withheld for unmet prerequisites:
\* min(k, non-completed courses) are recommended and none is reported blocked.
C23_EnforcementOnlyRemoves ==
    (Called /\ Returned) =>
        /\ Let(Counterpart, LAMBDA other :
                /\ other.kind = "returned"
                /\ IF request.enforce_prereqs
                   THEN Len(other.recommendations) >= Len(Recs)
                   ELSE Len(Recs) >= Len(other.recommendations))
        /\ (Ranking /\ ~request.enforce_prereqs) =>
              /\ response.blocked_courses = None
              /\ Len(Recs) = IF request.k < Cardinality(NotCompletedIds)
                             THEN request.k ELSE Cardinality(NotCompletedIds)
              /\ RecIds \subseteq NotCompletedIds

\* without enforcement a course with an unmet prerequisite is recommended,
\* and the same request with enforcement returns fewer recommendations
C23_Witness ==
    /\ Called /\ Ranking /\ ~request.enforce_prereqs
    /\ \E c \in RecIds : PrereqsOf(c) \ CompletedIds # {}
    /\ Let(Counterpart, LAMBDA other : Len(other.recommendations) < Len(Recs))

-----------------------------------------------------------------------------
(* Properties of missing data *)

\* a course with no cluster, no skill row, no review and no prerequisite
Sparse(c) ==
    /\ \A r \in course_clusters : r.course_id # c
    /\ \A r \in course_skills : r.course_id # c
    /\ StoredScores(c) = <<>>
    /\ PrereqsOf(c) = {}

SkillIdsInTable == {sk.id : sk \in skills}

\* the entry of a sparse course carries the defaults
SparseDefaults(i) ==
    /\ Recs[i].breakdown.s_role = Zero
    /\ Recs[i].breakdown.q_smoothed = GlobalC
    /\ Recs[i].review_count = 0
    /\ Recs[i].avg_score_raw = None
    /\ Recs[i].matched_technical_skills = <<>>
    /\ Recs[i].breakdown.s_affinity = Zero
    /\ \A j \in 1..Len(TopContributing(i)) :
          /\ TopContributing(i)[j].similarity_score = Zero
          /\ ~TopContributing(i)[j].cluster_matched
          /\ TopContributing(i)[j].tech_overlap_score = Zero

\* the human-skill entries whose id is not in the skills table have name ''
DanglingNamesEmpty(list) ==
    \A j \in 1..Len(list) :
        list[j].skill_id \notin SkillIdsInTable => list[j].name = ""

\* C24: sparse data never makes the call fail: for an existing student it
\* returns; a non-completed course with no cluster, skill row, review or
\* prerequisite is scored, with s_role 0, similarity 0 to every completed
\* course, q_smoothed = C, review_count 0 and avg_score_raw null; a required
\* skill id missing from the skills table is reported with an empty name.
C24_SparseDataDefaults ==
    (Called /\ StudentExists) =>
        /\ Returned
        /\ \A i \in 1..Len(Recs) : Sparse(Recs[i].course_id) => SparseDefaults(i)
        /\ Ranking =>
              Let(AllScored, LAMBDA all :
                    \A c \in NotCompletedIds :
                        Sparse(c) => \E j \in 1..Len(all) : all[j].course_id = c)
        /\ DanglingNamesEmpty(response.overlap_human_skills)
        /\ DanglingNamesEmpty(response.missing_human_skills)

\* a sparse course is recommended to a student who completed annotated
\* courses, while other courses have reviews, and the goal requires a human
\* skill that is not in the skills table
C24_Witness ==
    /\ Called /\ Ranking
    /\ course_reviews # <<>>
    /\ \E i \in 1..Len(Recs) :
          /\ Sparse(Recs[i].course_id)
          /\ Len(TopContributing(i)) = 2
          /\ Recs[i].breakdown.q_smoothed # Rat(1, 2)
    /\ \E j \in 1..Len(response.missing_human_skills) :
          /\ response.missing_human_skills[j].skill_id \notin SkillIdsInTable
          /\ response.missing_human_skills[j].name = ""

-----------------------------------------------------------------------------
(* Ranges, order of the stages, and the three classes of courses *)

InUnit(x) == RLeq(Zero, x) /\ RLeq(x, One)

\* the premise of C28: stored relevances in [0,1], stored final scores in [1,10]
StoredValuesInRange ==
    /\ \A r \in course_skills :
          r.relevance_score # None => InUnit(r.relevance_score[1])
    /\ \A i \in 1..Len(course_reviews) :
          /\ RLeq(One, course_reviews[i].final_score)
          /\ RLeq(course_reviews[i].final_score, Rat(10, 1))

\* C28: every recommendation's final_score and each of s_role, s_affinity
\* and q_smoothed lies in [0, 1], provided stored relevances lie in [0,1]
\* and stored review final scores in [1,10].
C28_ScoresInUnitInterval ==
    (Called /\ Returned /\ StoredValuesInRange) =>
        \A i \in 1..Len(Recs) :
            /\ InUnit(Recs[i].final_score)
            /\ InUnit(Recs[i].breakdown.s_role)
            /\ InUnit(Recs[i].breakdown.s_affinity)
            /\ InUnit(Recs[i].breakdown.q_smoothed)

\* a recommendation at the top of the range in role fit and affinity, next
\* to reviews at the top of their scale
C28_Witness ==
    /\ Called /\ Returned /\ StoredValuesInRange
    /\ \E i \in 1..Len(course_reviews) : course_reviews[i].final_score = Rat(10, 1)
    /\ \E i \in 1..Len(Recs) :
          /\ Recs[i].breakdown.s_affinity = One
          /\ Recs[i].breakdown.q_smoothed = One
          /\ RLess(Rat(1, 2), Recs[i].breakdown.s_role)

C30_ThreeClasses ==
    (Called /\ Ranking /\ request.enforce_prereqs) =>
        LET completed == CompletedIds \cap CourseIdsInTable
        IN /\ Cardinality(BlockedIds) = Len(BlockedList)
           /\ Cardinality(RecIds) = Len(Recs)
           /\ BlockedIds \cap completed = {}
           /\ RecIds \cap completed = {}
           /\ RecIds \cap BlockedIds = {}
           /\ EligibleIds \cap BlockedIds = {}
           /\ EligibleIds \cup BlockedIds \cup completed = CourseIdsInTable
           /\ RecIds \subseteq EligibleIds
           /\ request.k >= Cardinality(EligibleIds) =>
                 RecIds \cup BlockedIds \cup completed = CourseIdsInTable

\* one course completed, one blocked, one recommended
C30_Witness ==
    /\ Called /\ Ranking /\ request.enforce_prereqs
    /\ Cardinality(CompletedIds \cap CourseIdsInTable) = 1
    /\ Cardinality(BlockedIds) = 1
    /\ Cardinality(RecIds) = 1
    /\ request.k = 2

-----------------------------------------------------------------------------
(* Properties of review creation *)

\* C27: after any sequence of create_course_review calls every stored review
\* has a final_score between 1 and 10 inclusive, equal to
\* 2 * (5*industry + 2*instructor + 3*useful) / 10 of the submitted ratings.
C27_FinalScoreOneToTen ==
    \A i \in 1..Len(course_reviews) :
        /\ RLeq(One, course_reviews[i].final_score)
        /\ RLeq(course_reviews[i].final_score, Rat(10, 1))
        /\ course_reviews[i].final_score =
              Rat(2 * (5 * course_reviews[i].industry_relevance_rating
                       + 2 * course_reviews[i].instructor_rating
                       + 3 * course_reviews[i].useful_learning_rating), 10)

-----------------------------------------------------------------------------
(* Cluster seeding *)

\* the cluster rows carrying a name, and the courses linked to a cluster
ClusterRows(name) == {c \in clusters : c.name = name}
LinkRows(cluster_id) == {link \in course_clusters : link.cluster_id = cluster_id}
LinkedCourseIds(cluster_id) == {link.course_id : link \in LinkRows(cluster_id)}

NoPairTwice ==
    \A a \in course_clusters, b \in course_clusters :
        (a.course_id = b.course_id /\ a.cluster_id = b.cluster_id) => a = b
NoNameTwice ==
    \A a \in clusters, b \in clusters : a.name = b.name => a = b

\* C25: over a fixed course table, every run of seed_clusters after the first
\* leaves the clusters table and the course_clusters table exactly as they
\* were, and at no time is a (course, cluster) pair or a cluster name stored
\* twice.
C25_SeedIdempotent ==
    /\ [](NoPairTwice /\ NoNameTwice)
    /\ [][calls >= 1 => /\ clusters' = clusters
                        /\ course_clusters' = course_clusters]_vars

\* a third run has been made over a table where course 10147 sits in its three
\* clusters and course 10010 is missing
C25_Witness ==
    /\ calls = 3
    /\ response.kind = "seeded"
    /\ Cardinality({link \in course_clusters : link.course_id = 10147}) = 3
    /\ 10010 \notin CourseIdsInTable
    /\ Cardinality(clusters) = Len(CLUSTERS_DATA)

====
